---- MODULE Spec2Model ----
(***************************************************************************)
(* Model of the RAG web application: the relational rows (projects,        *)
(* documents, chunks, queries), the Qdrant collection behind               *)
(* VectorDatabase, and the HTTP handlers upload_document, delete_document, *)
(* delete_project, create_project and submit_query.                        *)
(*                                                                         *)
(* Spec is the application behind its handlers; SpecVdb is a               *)
(* VectorDatabase object called directly (connect, create_collection,      *)
(* upsert_chunks, delete_by_document); SpecChunk is hierarchical_chunking  *)
(* applied to document texts, a str being a sequence of characters.        *)
(*                                                                         *)
(* Texts are abstract codes 1..MaxText.  Scores are cosine similarities in *)
(* tenths (7 stands for 0.7).  Python's None is modelled as 0, which the   *)
(* handlers treat like None wherever they test truthiness.                 *)
(***************************************************************************)
EXTENDS Integers, Sequences, FiniteSets, TLC

\* projects:    Project rows, id -> [document_count]
\* documents:   Document rows, id -> [project_id, status, chunk_count, ...]
\* chunks:      Chunk rows [id, document_id, content, chunk_index]
\* index:       the points [id, vector, payload] of the Qdrant collection
\* last:        the response of the most recent call
\* nextProject, nextDoc: the next fresh uuid of a project, of a document
\* vector_db:   the fields of the VectorDatabase object: client (connected
\*              or None), embedding_model (the dimension of the loaded model
\*              or None) and embedding_dimension
\* collection:  the vector size of the Qdrant collection, None while the
\*              collection does not exist
\* chunker:     a call of hierarchical_chunking: its arguments, how far it
\*              got, and the chunk records it returned
\* sessions:    where requests are served side by side, for every database
\*              session the request it serves, how far the handler got and
\*              what the handler holds in memory
\* files:       the ids of the upload files on disk, where requests are
\*              served side by side
VARIABLES projects, documents, chunks, index, last,
          nextProject, nextDoc, vector_db, collection, chunker,
          sessions, files

vars == <<projects, documents, chunks, index, last,
          nextProject, nextDoc, vector_db, collection, chunker,
          sessions, files>>

\* ---------------------------------------------------------------- bounds
MaxProjects == 2
\* the requests served side by side
MaxSessions == 2
MaxDocs == 2
MaxChunks == 1
MaxText == 2
\* the point ids a direct caller of VectorDatabase chooses from
MaxPointId == 2
\* the longest document text, the largest chunk_size and the largest
\* chunk_overlap given to hierarchical_chunking
MaxLen == 7
MaxSize == 5
MaxOverlap == 2
\* the longest paragraph and the most paragraphs of the longer texts
MaxWord == 5
MaxParas == 3

\* ------------------------------------------------------------- constants
NoneVal == 0
DefaultTopK == 5
DefaultThreshold == 7
\* settings.embedding_dimension
EMBEDDING_DIMENSION == 384

ProjectIds == 1..MaxProjects
Texts == 1..MaxText
TopKs == {NoneVal, 1}
Thresholds == {NoneVal, 9}

NO_RESULTS_MSG == "I couldn't find any relevant information in your documents to answer this question."
NO_CONTEXT_MSG == "I couldn't find any relevant information in the documents to answer your question."
DEGRADED_MSG == "Found relevant information but encountered an error generating the response"
LLM_ANSWER == "llm answer"

UPLOADING == "uploading"
PROCESSING == "processing"
COMPLETED == "completed"
FAILED == "failed"

\* ------------------------------------------------------------- helpers
Min(a, b) == IF a <= b THEN a ELSE b

Max(a, b) == IF a >= b THEN a ELSE b

Range(s) == {s[i] : i \in 1..Len(s)}

\* s or d, as Python evaluates it for an int or None
OrDefault(v, d) == IF v = NoneVal THEN d ELSE v

\* ------------------------------------------------ embedder and distance
\* The sentence-transformer: a deterministic map from a text to a vector.
generate_embedding(text) == <<text, MaxText + 1 - text>>

Dot(u, v) == u[1] * v[1] + u[2] * v[2]

\* Distance.COSINE, in tenths rounded down: the largest s in 0..10 with
\* (s/10)^2 <= dot^2 / (|u|^2 |v|^2); all components are positive.
Cosine(u, v) ==
    CHOOSE s \in 0..10 :
        /\ s * s * Dot(u, u) * Dot(v, v) <= 100 * Dot(u, v) * Dot(u, v)
        /\ \A t \in (s + 1)..10 :
              t * t * Dot(u, u) * Dot(v, v) > 100 * Dot(u, v) * Dot(u, v)

\* The scores of all pairs of embeddings, computed once.
Scores ==
    [u \in {generate_embedding(t) : t \in Texts},
     v \in {generate_embedding(t) : t \in Texts} |-> Cosine(u, v)]

\* ------------------------------------------------------ Qdrant collection
\* Filter(must=[FieldCondition(key, MatchValue(value))...]): a conjunction.
MatchesFilter(pt, flt) == \A k \in DOMAIN flt : pt.payload[k] = flt[k]

\* Every sequence of n scored points the engine may return from S: best
\* score first; the order among equal scores is the engine's choice.
RECURSIVE TopSeqs(_, _)
TopSeqs(S, n) ==
    IF n = 0 \/ S = {} THEN {<<>>}
    ELSE UNION { { <<p>> \o t : t \in TopSeqs(S \ {p}, n - 1) } :
                 p \in {x \in S : \A y \in S : y.score <= x.score} }

\* client.search(query_vector, query_filter, limit, score_threshold): the
\* points that match the filter, scored against the query vector, those
\* below the threshold dropped, the best `limit` of them returned.
ClientSearch(idx, qv, flt, limit, th) ==
    TopSeqs({sp \in {[id |-> p.id, score |-> Scores[qv, p.vector],
                      payload |-> p.payload] :
                        p \in {x \in idx : MatchesFilter(x, flt)}} :
               sp.score >= th},
            limit)

\* An upsert that adds the points and removes none.
ClientUpsert_Append(idx, points) == idx \cup points

\* client.upsert(points): a point replaces the stored point of the same id
ClientUpsert(idx, points) ==
    {p \in idx : \A q \in points : q.id # p.id} \cup points

\* client.delete(FilterSelector(document_id = d))
ClientDeleteByFilter(idx, flt) == {p \in idx : ~MatchesFilter(p, flt)}

\* ------------------------------------------------------- VectorDatabase
\* The points upsert_chunks builds by zipping ids, embeddings, texts and
\* metadatas: payload = {"text": text, **metadata}.
Points(chunk_ids, texts, metadatas) ==
    { [id |-> chunk_ids[i],
       vector |-> generate_embedding(texts[i]),
       payload |-> [text |-> texts[i],
                    document_id |-> metadatas[i].document_id,
                    project_id |-> metadatas[i].project_id,
                    chunk_index |-> metadatas[i].chunk_index]] :
      i \in 1..Min(Len(chunk_ids), Min(Len(texts), Len(metadatas))) }

\* VectorDatabase.upsert_chunks: the collection afterwards.  An exception of
\* the embedder or of the client is logged and turned into the return value
\* False, and the collection is left as it was.
upsert_chunks(idx, chunk_ids, texts, metadatas, embedOk, clientOk) ==
    IF embedOk /\ clientOk
    THEN ClientUpsert(idx, Points(chunk_ids, texts, metadatas))
    ELSE idx

\* A query filter that leaves the project condition out.
QueryFilter_DocumentOnly(project_id, document_id) ==
    [k \in {x \in {"document_id"} : document_id # NoneVal} |-> document_id]

\* The query filter search builds: a condition for each argument that is
\* truthy.
QueryFilter(project_id, document_id) ==
    [k \in {x \in {"project_id", "document_id"} :
               IF x = "project_id" THEN project_id # NoneVal
                                   ELSE document_id # NoneVal} |->
        IF k = "project_id" THEN project_id ELSE document_id]

\* The result dictionaries search formats from the scored points.
FormatResults(sp) ==
    [i \in 1..Len(sp) |->
        [chunk_id |-> sp[i].id,
         score |-> sp[i].score,
         rank |-> i,
         text |-> sp[i].payload.text,
         document_id |-> sp[i].payload.document_id,
         project_id |-> sp[i].payload.project_id]]

\* VectorDatabase.search: the set of result lists a call may return.  An
\* exception of the embedder or of the client is logged and an empty list
\* is returned.
search(idx, query_text, project_id, document_id, top_k, score_threshold, embedOk, clientOk) ==
    IF ~(embedOk /\ clientOk) THEN {<<>>}
    ELSE { FormatResults(sp) :
           sp \in ClientSearch(idx, generate_embedding(query_text),
                               QueryFilter(project_id, document_id),
                               top_k, score_threshold) }

\* A search that queries the client although the embedder raised.
SearchCalls_SearchAnyway(embedOk) == [embedder |-> 1, index |-> 1]

\* The calls VectorDatabase.search makes: generate_embedding once, first,
\* and client.search once after it; an exception of the embedder leaves the
\* try block before client.search is reached.  There is no loop around
\* either call.
SearchCalls(embedOk) ==
    [embedder |-> 1, index |-> IF embedOk THEN 1 ELSE 0]

\* VectorDatabase.delete_by_document
delete_by_document(idx, document_id) ==
    ClientDeleteByFilter(idx, [k \in {"document_id"} |-> document_id])

\* ------------------------------------------------------------------ llm
\* generate_rag_prompt: the numbered context entries of the prompt, "[i] text"
\* for the i-th entry of context_chunks, i counted from 1 by enumerate.
generate_rag_prompt(query, context_chunks) ==
    [i \in 1..Len(context_chunks) |->
        [n |-> i, text |-> context_chunks[i].text]]

\* generate_rag_response: without context the fixed sentence is returned
\* and no provider is called; otherwise the provider is called once and
\* its exception is re-raised.
generate_rag_response(context_chunks, llmOk) ==
    IF context_chunks = <<>>
    THEN [raised |-> FALSE, text |-> NO_CONTEXT_MSG, calls |-> 0]
    ELSE IF llmOk
    THEN [raised |-> FALSE, text |-> LLM_ANSWER, calls |-> 1]
    ELSE [raised |-> TRUE, text |-> "", calls |-> 1]

\* ------------------------------------------------------------- responses
\* The response of the most recent call.  For submit_query the record is
\* the Query row the handler stores and returns, together with what the
\* handler computed on the way (results, context_chunks) and what its
\* collaborators did (search_failed, embed_raised, embed_calls, index_calls,
\* llm_calls, llm_raised).  The row's
\* project counter query_count, which no other handler reads, is left out.
\* For upload_document ingest_failed tells that process_document, the
\* embedder or the upsert raised.  For a direct call of a VectorDatabase
\* method the record holds the arguments (recreate, chunk_ids), the
\* dimension the loaded model turned out to have (actual_dimension) and the
\* return value (returned), and whether an exception left the method
\* (raised); for an upload served beside other requests whether its commit
\* found the document row deleted (row_gone); for upsert_chunks also the texts and the ids whose stored point
\* the call replaced by another one (replaced).
NoCall ==
    [op |-> "none", http |-> 0, project_id |-> NoneVal, document_id |-> NoneVal,
     query_text |-> NoneVal, top_k |-> NoneVal, score_threshold |-> NoneVal,
     search_failed |-> FALSE, results |-> <<>>,
     context_chunks |-> <<>>, citations |-> <<>>, response_text |-> "",
     status |-> "", llm_calls |-> 0, llm_raised |-> FALSE,
     ingest_failed |-> FALSE, returned |-> FALSE, recreate |-> FALSE,
     chunk_ids |-> <<>>, actual_dimension |-> NoneVal, raised |-> FALSE,
     texts |-> <<>>, replaced |-> {},
     embed_raised |-> FALSE, embed_calls |-> 0, index_calls |-> 0,
     row_gone |-> FALSE]

\* A database session that serves no request: get_db opens a session for
\* a request and closes it when the handler has returned.
SessionIdle ==
    [pc |-> "idle", project_id |-> NoneVal, document_id |-> NoneVal,
     document_count |-> 0, extracted |-> FALSE, chunks_data |-> <<>>]

Sessions == 1..MaxSessions

NoSessions == [s \in Sessions |-> SessionIdle]

\* ------------------------------------------------------------ projects.py
\* create_project: a row with a fresh uuid and both counters 0.
CreateProject ==
    /\ nextProject <= MaxProjects
    /\ projects' = [p \in DOMAIN projects \cup {nextProject} |->
                      IF p = nextProject
                      THEN [document_count |-> 0]
                      ELSE projects[p]]
    /\ nextProject' = nextProject + 1
    /\ last' = [NoCall EXCEPT !.op = "create_project", !.http = 201,
                              !.project_id = nextProject]
    /\ UNCHANGED <<documents, chunks, index, nextDoc, vector_db, collection, chunker,
                   sessions, files>>

\* delete_project: 404 for an unknown project; otherwise the project row is
\* deleted and the ORM cascades to its documents and to their chunks.  The
\* vector index is not touched.
DeleteProject(project_id) ==
    IF project_id \notin DOMAIN projects
    THEN /\ last' = [NoCall EXCEPT !.op = "delete_project", !.http = 404,
                                   !.project_id = project_id]
         /\ UNCHANGED <<projects, documents, chunks, index,
                        nextProject, nextDoc, vector_db, collection, chunker,
                   sessions, files>>
    ELSE /\ projects' = [p \in DOMAIN projects \ {project_id} |-> projects[p]]
         /\ documents' = [d \in {x \in DOMAIN documents :
                                   documents[x].project_id # project_id} |->
                            documents[d]]
         /\ chunks' = {c \in chunks : c.document_id \in DOMAIN documents'}
         /\ last' = [NoCall EXCEPT !.op = "delete_project", !.http = 204,
                                   !.project_id = project_id]
         /\ UNCHANGED <<index, nextProject, nextDoc, vector_db, collection, chunker,
                   sessions, files>>

\* ------------------------------------------------------------ chunking.py
\* A str is a sequence of characters.  The characters of the document
\* texts: a letter and the two kinds of whitespace that matter to split
\* and strip.
Chars == {"a", " ", "\n"}

\* The characters str.strip removes.
Whitespace == {" ", "\n"}

\* The paragraph separator '\n\n'.
SEP == <<"\n", "\n">>

\* s.split('\n\n'): the pieces between the occurrences of the separator,
\* found from the left, an occurrence starting where the previous ended at
\* the earliest.
RECURSIVE split(_)
split(s) ==
    LET at == {i \in 1..(Len(s) - 1) : s[i] = "\n" /\ s[i + 1] = "\n"}
    IN IF at = {} THEN <<s>>
       ELSE LET i == CHOOSE x \in at : \A y \in at : x <= y
            IN <<SubSeq(s, 1, i - 1)>> \o split(SubSeq(s, i + 2, Len(s)))

\* s.strip()
strip(s) ==
    LET at == {i \in 1..Len(s) : s[i] \notin Whitespace}
    IN IF at = {} THEN <<>>
       ELSE SubSeq(s, CHOOSE x \in at : \A y \in at : x <= y,
                      CHOOSE x \in at : \A y \in at : x >= y)

\* s[k:] as Python slices: a negative k counts from the end.
SliceFrom(s, k) ==
    LET start == IF k < 0 THEN Max(Len(s) + k, 0) ELSE Min(k, Len(s))
    IN SubSeq(s, start + 1, Len(s))

\* The paragraphs without dropping the pieces that strip to nothing.
Paragraphs_KeepEmpty(document_text) ==
    LET pieces == split(document_text)
    IN [i \in 1..Len(pieces) |-> strip(pieces[i])]

\* [p.strip() for p in document_text.split('\n\n') if p.strip()]
Paragraphs(document_text) ==
    LET pieces == split(document_text)
    IN SelectSeq([i \in 1..Len(pieces) |-> strip(pieces[i])],
                 LAMBDA q : q # <<>>)

\* An overlap that is the whole closed chunk.
OverlapText_Whole(current_chunk, chunk_overlap) == current_chunk

\* overlap_text: current_chunk[-chunk_overlap:] when the chunk is longer
\* than chunk_overlap, the whole chunk otherwise.
OverlapText(current_chunk, chunk_overlap) ==
    IF Len(current_chunk) > chunk_overlap
    THEN SliceFrom(current_chunk, 0 - chunk_overlap)
    ELSE current_chunk

\* A chunk dictionary that is always numbered 0.
ChunkRecord_IndexZero(current_chunk, chunk_index, end_para) ==
    [content |-> strip(current_chunk),
     chunk_index |-> 0,
     start_para |-> end_para - Len(split(current_chunk)),
     end_para |-> end_para,
     char_count |-> Len(current_chunk)]

\* The dictionary appended for a chunk that ends before paragraph end_para
\* (counted from 0).
ChunkRecord(current_chunk, chunk_index, end_para) ==
    [content |-> strip(current_chunk),
     chunk_index |-> chunk_index,
     start_para |-> end_para - Len(split(current_chunk)),
     end_para |-> end_para,
     char_count |-> Len(current_chunk)]

\* A condition that never closes a chunk.
ClosesChunk_Never(current_chunk, paragraph, chunk_size) == FALSE

\* Whether the paragraph closes the buffer: the buffer is not empty and
\* its length and the paragraph's, the separator not counted, exceed
\* chunk_size.
ClosesChunk(current_chunk, paragraph, chunk_size) ==
    /\ Len(current_chunk) + Len(paragraph) > chunk_size
    /\ current_chunk # <<>>

\* A next buffer without the paragraph that closed the chunk.
NextBuffer_OverlapOnly(overlap_text, paragraph) == overlap_text

\* The buffer after a chunk is closed: the overlap, the separator and the
\* paragraph that closed the chunk.
NextBuffer(overlap_text, paragraph) == overlap_text \o SEP \o paragraph

\* The body of the loop over the paragraphs, on the loop's variables
\* st = [chunks, current_chunk, chunk_index]: a buffer the paragraph
\* closes is appended as a chunk and the next buffer and index are set;
\* otherwise the paragraph is added to the buffer.
ChunkStep(st, paragraph, para_idx, chunk_size, chunk_overlap) ==
    IF ClosesChunk(st.current_chunk, paragraph, chunk_size)
    THEN [chunks |-> Append(st.chunks,
                            ChunkRecord(st.current_chunk, st.chunk_index,
                                        para_idx)),
          current_chunk |->
              NextBuffer(OverlapText(st.current_chunk, chunk_overlap),
                         paragraph),
          chunk_index |-> st.chunk_index + 1]
    ELSE [st EXCEPT !.current_chunk =
                       IF st.current_chunk # <<>>
                       THEN st.current_chunk \o SEP \o paragraph
                       ELSE paragraph]

\* for para_idx, paragraph in enumerate(paragraphs), from the k-th on
RECURSIVE ChunkLoop(_, _, _, _, _)
ChunkLoop(st, paragraphs, k, chunk_size, chunk_overlap) ==
    IF k > Len(paragraphs) THEN st
    ELSE ChunkLoop(ChunkStep(st, paragraphs[k], k - 1, chunk_size,
                             chunk_overlap),
                   paragraphs, k + 1, chunk_size, chunk_overlap)

\* hierarchical_chunking with both sizes given.  No argument is checked
\* and no statement raises for a str: the call always returns.
hierarchical_chunking(document_text, chunk_size, chunk_overlap) ==
    LET paragraphs == Paragraphs(document_text)
        st == ChunkLoop([chunks |-> <<>>, current_chunk |-> <<>>,
                         chunk_index |-> 0],
                        paragraphs, 1, chunk_size, chunk_overlap)
    IN [raised |-> FALSE,
        chunks |-> IF strip(st.current_chunk) # <<>>
                   THEN Append(st.chunks,
                               ChunkRecord(st.current_chunk, st.chunk_index,
                                           Len(paragraphs)))
                   ELSE st.chunks]

\* No call of the chunker under way.
ChunkerIdle ==
    [state |-> "idle", document_text |-> <<>>, chunk_size |-> NoneVal,
     chunk_overlap |-> NoneVal, raised |-> FALSE, chunks |-> <<>>]

\* ----------------------------------------------------------- documents.py
\* process_document's possible outputs: chunk records with contiguous
\* chunk_index, at most MaxChunks of them.
ChunksData ==
    UNION { { [i \in 1..n |-> [content |-> f[i], chunk_index |-> i - 1]] :
              f \in [1..n -> Texts] } : n \in 0..MaxChunks }

\* The uuid of the i-th chunk of document file_id: fresh, since no two
\* documents share a file_id.
ChunkId(file_id, i) == (file_id - 1) * MaxChunks + i

\* The Chunk rows upload_document adds for chunks_data: content and
\* chunk_index are those of the chunk record.
ChunkRows(file_id, chunks_data) ==
    [i \in 1..Len(chunks_data) |->
        [id |-> ChunkId(file_id, i), document_id |-> file_id,
         content |-> chunks_data[i].content,
         chunk_index |-> chunks_data[i].chunk_index]]

\* The attributes of a Document row: the columns of the model.
DocumentColumns ==
    {"id", "project_id", "filename", "original_filename", "file_path",
     "file_size", "file_type", "mime_type", "status", "processing_error",
     "page_count", "word_count", "chunk_count", "source", "source_url",
     "source_id", "created_at", "updated_at", "processed_at"}

\* The processing block of upload_document, from the row's point of view.
\* process_document raising (extractOk = FALSE) leaves chunk_count alone.
\* Otherwise status and chunk_count are assigned, and the next statement
\* reads db_document.uploaded_at: when that is no attribute of the row it
\* raises, processed_at is never assigned, and the handler's except branch
\* assigns FAILED.  The except branch stores the message in error_message,
\* which is no column: processing_error is never written.  The commit of
\* either branch writes whatever was assigned.
ProcessedRow(project_id, extractOk, chunks_data) ==
    LET assigned == extractOk
        raised == ~extractOk \/ "uploaded_at" \notin DocumentColumns
    IN [project_id |-> project_id,
        status |-> IF raised THEN FAILED ELSE COMPLETED,
        chunk_count |-> IF assigned THEN Len(chunks_data) ELSE 0,
        processed_at |-> ~raised,
        processing_error |-> NoneVal]

\* upload_document.  extractOk = FALSE stands for process_document raising.
\* The Chunk rows added before an exception of the processing block are
\* pending in the session and are written by the commit of the except
\* branch; the upsert has been done by then.
UploadDocument(project_id, typeOk, sizeOk, extractOk, chunks_data, embedOk, clientOk) ==
    IF project_id \notin DOMAIN projects
    THEN /\ last' = [NoCall EXCEPT !.op = "upload_document", !.http = 404,
                                   !.project_id = project_id]
         /\ UNCHANGED <<projects, documents, chunks, index,
                        nextProject, nextDoc, vector_db, collection, chunker,
                   sessions, files>>
    ELSE IF ~typeOk \/ ~sizeOk
    THEN /\ last' = [NoCall EXCEPT !.op = "upload_document", !.http = 400,
                                   !.project_id = project_id]
         /\ UNCHANGED <<projects, documents, chunks, index,
                        nextProject, nextDoc, vector_db, collection, chunker,
                   sessions, files>>
    ELSE
      LET file_id == nextDoc
          rows == ChunkRows(file_id, chunks_data)
          chunk_ids == [i \in 1..Len(rows) |-> rows[i].id]
          chunk_texts == [i \in 1..Len(rows) |-> rows[i].content]
          chunk_metadatas ==
              [i \in 1..Len(rows) |->
                  [document_id |-> file_id, project_id |-> project_id,
                   chunk_index |-> rows[i].chunk_index]]
          row == ProcessedRow(project_id, extractOk, chunks_data)
      IN
      /\ nextDoc <= MaxDocs
      /\ projects' = [projects EXCEPT ![project_id].document_count = @ + 1]
      /\ documents' = [d \in DOMAIN documents \cup {file_id} |->
                         IF d = file_id THEN row ELSE documents[d]]
      /\ nextDoc' = nextDoc + 1
      /\ IF extractOk
         THEN /\ chunks' = chunks \cup Range(rows)
              /\ index' = IF chunk_ids # <<>>
                          THEN upsert_chunks(index, chunk_ids, chunk_texts,
                                             chunk_metadatas, embedOk, clientOk)
                          ELSE index
         ELSE UNCHANGED <<chunks, index>>
      /\ last' = [NoCall EXCEPT !.op = "upload_document", !.http = 201,
                                !.project_id = project_id,
                                !.document_id = file_id,
                                !.status = row.status,
                                !.ingest_failed =
                                    \/ ~extractOk
                                    \/ /\ chunk_ids # <<>>
                                       /\ ~(embedOk /\ clientOk)]
      /\ UNCHANGED <<nextProject, vector_db, collection, chunker,
                   sessions, files>>

\* delete_document: 404 unless the document exists in that project;
\* otherwise the project's counter is decremented (not below 0) and the
\* document row is deleted, the ORM cascading to its chunks.  The vector
\* index is not touched.
DeleteDocument(project_id, document_id) ==
    IF ~(document_id \in DOMAIN documents
         /\ documents[document_id].project_id = project_id)
    THEN /\ last' = [NoCall EXCEPT !.op = "delete_document", !.http = 404,
                                   !.project_id = project_id,
                                   !.document_id = document_id]
         /\ UNCHANGED <<projects, documents, chunks, index,
                        nextProject, nextDoc, vector_db, collection, chunker,
                   sessions, files>>
    ELSE /\ projects' = IF project_id \in DOMAIN projects
                        THEN [projects EXCEPT ![project_id].document_count =
                                                 Max(0, @ - 1)]
                        ELSE projects
         /\ documents' = [d \in DOMAIN documents \ {document_id} |->
                            documents[d]]
         /\ chunks' = {c \in chunks : c.document_id # document_id}
         /\ last' = [NoCall EXCEPT !.op = "delete_document", !.http = 204,
                                   !.project_id = project_id,
                                   !.document_id = document_id]
         /\ UNCHANGED <<index, nextProject, nextDoc, vector_db, collection, chunker,
                   sessions, files>>

\* ------------------------------------------------------------- queries.py
\* For each search result, whether chunks_dict and docs_dict both hold its
\* row: the Chunk row is looked up by the hit's id, the Document row by the
\* document_id of the hit's payload.
Resolved(results, chunkRows, docRows) ==
    [i \in 1..Len(results) |->
        /\ \E c \in chunkRows : c.id = results[i].chunk_id
        /\ results[i].document_id \in DOMAIN docRows]

\* The context entries and the citations submit_query builds from the
\* search results: one of each for every result whose rows both resolve,
\* in the order of the results, the context entry ranked by the position of
\* its result.
BuildContext(results, chunkRows, docRows) ==
    LET resolved == Resolved(results, chunkRows, docRows)
        kept == SelectSeq([i \in 1..Len(results) |-> i],
                          LAMBDA i : resolved[i])
        chunkOf(i) == CHOOSE c \in chunkRows : c.id = results[i].chunk_id
    IN [context_chunks |->
            [j \in 1..Len(kept) |->
                [text |-> chunkOf(kept[j]).content,
                 score |-> results[kept[j]].score,
                 rank |-> kept[j]]],
        citations |->
            [j \in 1..Len(kept) |->
                [chunk_id |-> chunkOf(kept[j]).id,
                 document_id |-> results[kept[j]].document_id,
                 similarity_score |-> results[kept[j]].score]]]

\* submit_query discarding the citations when the language model raises.
QueryOutcome_DropCitations(results, chunkRows, docRows, llmOk) ==
    IF results = <<>>
    THEN [response_text |-> NO_RESULTS_MSG, citations |-> <<>>,
          context_chunks |-> <<>>, llm_calls |-> 0, llm_raised |-> FALSE]
    ELSE
      LET built == BuildContext(results, chunkRows, docRows)
          gen == generate_rag_response(built.context_chunks, llmOk)
      IN [response_text |-> IF gen.raised THEN DEGRADED_MSG ELSE gen.text,
          citations |-> IF gen.raised THEN <<>> ELSE built.citations,
          context_chunks |-> built.context_chunks,
          llm_calls |-> gen.calls, llm_raised |-> gen.raised]

\* submit_query without its no-results branch: generate_rag_response is
\* called whatever the search returned.
QueryOutcome_AlwaysGenerate(results, chunkRows, docRows, llmOk) ==
    LET built == BuildContext(results, chunkRows, docRows)
        gen == generate_rag_response(built.context_chunks, llmOk)
    IN [response_text |-> IF gen.raised THEN DEGRADED_MSG ELSE gen.text,
        citations |-> built.citations,
        context_chunks |-> built.context_chunks,
        llm_calls |-> gen.calls, llm_raised |-> gen.raised]

\* What submit_query computes from the search results: the no-results
\* branch, or the context and citations of the resolved hits followed by
\* the call of generate_rag_response, whose exception is replaced by the
\* degraded answer.
QueryOutcome(results, chunkRows, docRows, llmOk) ==
    IF results = <<>>
    THEN [response_text |-> NO_RESULTS_MSG, citations |-> <<>>,
          context_chunks |-> <<>>, llm_calls |-> 0, llm_raised |-> FALSE]
    ELSE
      LET built == BuildContext(results, chunkRows, docRows)
          gen == generate_rag_response(built.context_chunks, llmOk)
      IN [response_text |-> IF gen.raised THEN DEGRADED_MSG ELSE gen.text,
          citations |-> built.citations,
          context_chunks |-> built.context_chunks,
          llm_calls |-> gen.calls, llm_raised |-> gen.raised]

\* submit_query: 404 for an unknown project; otherwise the search, the
\* outcome computed from its results, and the Query row stored with status
\* COMPLETED and returned.
SubmitQuery(project_id, query_text, top_k, similarity_threshold, embedOk, clientOk, llmOk) ==
    IF project_id \notin DOMAIN projects
    THEN /\ last' = [NoCall EXCEPT !.op = "submit_query", !.http = 404,
                                   !.project_id = project_id]
         /\ UNCHANGED <<projects, documents, chunks, index,
                        nextProject, nextDoc, vector_db, collection, chunker,
                   sessions, files>>
    ELSE
      /\ \E results \in search(index, query_text, project_id, NoneVal,
                               OrDefault(top_k, DefaultTopK),
                               OrDefault(similarity_threshold, DefaultThreshold),
                               embedOk, clientOk) :
           LET out == QueryOutcome(results, chunks, documents, llmOk)
               call == [NoCall EXCEPT
                          !.op = "submit_query",
                          !.project_id = project_id,
                          !.query_text = query_text,
                          !.top_k = OrDefault(top_k, DefaultTopK),
                          !.score_threshold =
                              OrDefault(similarity_threshold, DefaultThreshold),
                          !.search_failed = ~(embedOk /\ clientOk),
                          !.embed_raised = ~embedOk,
                          !.embed_calls = SearchCalls(embedOk).embedder,
                          !.index_calls = SearchCalls(embedOk).index,
                          !.results = results,
                          !.context_chunks = out.context_chunks,
                          !.llm_calls = out.llm_calls,
                          !.llm_raised = out.llm_raised]
           IN last' = [call EXCEPT !.http = 201,
                                   !.response_text = out.response_text,
                                   !.citations = out.citations,
                                   !.status = COMPLETED]
      /\ UNCHANGED <<projects, documents, chunks, index,
                     nextProject, nextDoc, vector_db, collection, chunker,
                   sessions, files>>

\* A direct call of VectorDatabase.search with a document scope, with or
\* without a project scope, top_k and score_threshold left to the
\* defaults of the signature.
Search(query_text, project_id, document_id, top_k, score_threshold, embedOk, clientOk) ==
    /\ \E results \in search(index, query_text, project_id, document_id,
                             top_k, score_threshold, embedOk, clientOk) :
          last' = [NoCall EXCEPT !.op = "search",
                                 !.project_id = project_id,
                                 !.document_id = document_id,
                                 !.query_text = query_text,
                                 !.top_k = top_k,
                                 !.score_threshold = score_threshold,
                                 !.search_failed = ~(embedOk /\ clientOk),
                                 !.embed_raised = ~embedOk,
                                 !.embed_calls = SearchCalls(embedOk).embedder,
                                 !.index_calls = SearchCalls(embedOk).index,
                                 !.results = results]
    /\ UNCHANGED <<projects, documents, chunks, index,
                   nextProject, nextDoc, vector_db, collection, chunker,
                   sessions, files>>

\* ------------------------------------- VectorDatabase, called directly
\* The dimensions the configured embedding model may turn out to have.
ModelDimensions == {EMBEDDING_DIMENSION, 2 * EMBEDDING_DIMENSION}

\* How far a call gets: it succeeds, its first client call raises, or a
\* later one does (loading the model in connect, creating the collection
\* in create_collection).
Outcomes == {"ok", "raises", "raises_later"}

\* VectorDatabase.connect.  The client is assigned first, then the model;
\* a model whose dimension is not the configured one is accepted and
\* embedding_dimension is set to the model's.  Any exception is logged and
\* False returned.
Connect(actual_dimension, outcome) ==
    /\ vector_db' =
          IF outcome = "raises" THEN vector_db
          ELSE IF outcome = "raises_later"
          THEN [vector_db EXCEPT !.client = TRUE]
          ELSE [vector_db EXCEPT
                  !.client = TRUE,
                  !.embedding_model = actual_dimension,
                  !.embedding_dimension =
                      IF actual_dimension # EMBEDDING_DIMENSION
                      THEN actual_dimension ELSE @]
    /\ last' = [NoCall EXCEPT !.op = "connect",
                              !.actual_dimension = actual_dimension,
                              !.returned = (outcome = "ok")]
    /\ UNCHANGED <<projects, documents, chunks, index,
                   nextProject, nextDoc, collection, chunker,
                   sessions, files>>

\* VectorDatabase.create_collection.  With recreate an existing collection
\* is deleted first; a collection is created, with embedding_dimension as
\* its vector size, only when none of the name exists; an existing one is
\* left as it is whatever its vector size.  Any exception (the client is
\* None before connect) is logged and False returned.
CreateCollection(recreate, outcome) ==
    LET reached == vector_db.client /\ outcome # "raises"
        deleted == reached /\ recreate /\ collection # NoneVal
        absent == collection = NoneVal \/ deleted
        created == reached /\ absent /\ outcome = "ok"
    IN
    /\ collection' = IF created THEN vector_db.embedding_dimension
                     ELSE IF deleted THEN NoneVal
                     ELSE collection
    /\ index' = IF deleted THEN {} ELSE index
    /\ last' = [NoCall EXCEPT !.op = "create_collection",
                              !.recreate = recreate,
                              !.returned = reached /\ (absent => created)]
    /\ UNCHANGED <<projects, documents, chunks,
                   nextProject, nextDoc, vector_db, chunker,
                   sessions, files>>

\* Whether the client accepts points embedded by the loaded model: the
\* collection exists and its vector size is the model's dimension.
ClientAccepts ==
    /\ vector_db.client
    /\ collection # NoneVal
    /\ collection = vector_db.embedding_model

\* A direct call of VectorDatabase.upsert_chunks for the chunks of one
\* document.  The embedder raises when no model is loaded.  The method's
\* except clause catches every Exception, that of a client refusing
\* vectors of the wrong size included, and returns False: no exception
\* leaves the method.
UpsertChunks(project_id, document_id, chunk_ids, texts, embedOk, clientOk) ==
    LET metadatas == [i \in 1..Len(chunk_ids) |->
                        [document_id |-> document_id,
                         project_id |-> project_id,
                         chunk_index |-> i - 1]]
        embeds == embedOk /\ vector_db.embedding_model # NoneVal
        accepts == clientOk /\ ClientAccepts
    IN
    /\ index' = upsert_chunks(index, chunk_ids, texts, metadatas,
                              embeds, accepts)
    /\ last' = [NoCall EXCEPT !.op = "upsert_chunks",
                              !.project_id = project_id,
                              !.document_id = document_id,
                              !.chunk_ids = chunk_ids,
                              !.texts = texts,
                              !.replaced =
                                  IF embeds /\ accepts
                                  THEN {p.id : p \in
                                          {x \in index :
                                             /\ x.id \in Range(chunk_ids)
                                             /\ x \notin Points(chunk_ids, texts,
                                                                metadatas)}}
                                  ELSE {},
                              !.returned = embeds /\ accepts,
                              !.raised = FALSE]
    /\ UNCHANGED <<projects, documents, chunks,
                   nextProject, nextDoc, vector_db, collection, chunker,
                   sessions, files>>

\* A direct call of VectorDatabase.delete_by_document.
DeleteByDocument(document_id, clientOk) ==
    LET reached == clientOk /\ vector_db.client /\ collection # NoneVal
    IN
    /\ index' = IF reached THEN delete_by_document(index, document_id)
                ELSE index
    /\ last' = [NoCall EXCEPT !.op = "delete_by_document",
                              !.document_id = document_id,
                              !.returned = reached]
    /\ UNCHANGED <<projects, documents, chunks,
                   nextProject, nextDoc, vector_db, collection, chunker,
                   sessions, files>>

\* ------------------------------------------------------------ the system
\* An empty database and, after the startup of the application has
\* connected the VectorDatabase and created the collection, an empty
\* collection of the configured dimension.
Init ==
    /\ projects = <<>>
    /\ documents = <<>>
    /\ chunks = {}
    /\ index = {}
    /\ last = NoCall
    /\ nextProject = 1
    /\ nextDoc = 1
    /\ vector_db = [client |-> TRUE, embedding_model |-> EMBEDDING_DIMENSION,
                    embedding_dimension |-> EMBEDDING_DIMENSION]
    /\ collection = EMBEDDING_DIMENSION
    /\ chunker = ChunkerIdle
    /\ sessions = NoSessions
    /\ files = {}

\* The outcomes of a call's two collaborators that differ in effect: both
\* succeed, the embedder raises, or the Qdrant client raises.
Collaborators == {<<TRUE, TRUE>>, <<FALSE, TRUE>>, <<TRUE, FALSE>>}

\* The uploads that differ in effect: a rejected content type, a rejected
\* size, a failed extraction, and each chunks_data with each outcome of the
\* upsert (the upsert is not called for an empty chunks_data).
UploadInputs ==
    {u \in [typeOk : BOOLEAN, sizeOk : BOOLEAN, extractOk : BOOLEAN,
            chunks_data : ChunksData, collab : Collaborators] :
        /\ ~u.typeOk => u.sizeOk
        /\ ~(u.typeOk /\ u.sizeOk /\ u.extractOk)
              => u.chunks_data = <<>>
        /\ u.chunks_data = <<>> => u.collab = <<TRUE, TRUE>>}

\* The queries that differ in effect: the language model is reached only
\* after a search that did not fail.
QueryInputs ==
    {u \in [collab : Collaborators, llmOk : BOOLEAN] :
        u.collab # <<TRUE, TRUE>> => u.llmOk}

Next ==
    \/ CreateProject
    \/ \E p \in ProjectIds : DeleteProject(p)
    \/ \E p \in ProjectIds, u \in UploadInputs :
          UploadDocument(p, u.typeOk, u.sizeOk, u.extractOk, u.chunks_data,
                         u.collab[1], u.collab[2])
    \/ \E p \in ProjectIds, d \in 1..MaxDocs : DeleteDocument(p, d)
    \/ \E p \in ProjectIds, q \in Texts, k \in TopKs, th \in Thresholds,
          u \in QueryInputs :
          SubmitQuery(p, q, k, th, u.collab[1], u.collab[2], u.llmOk)
    \/ \E q \in Texts, p \in ProjectIds \cup {NoneVal}, d \in 1..MaxDocs,
          c \in Collaborators :
          Search(q, p, d, DefaultTopK, DefaultThreshold, c[1], c[2])

Spec == Init /\ [][Next]_vars

\* ---------------------------------------- the VectorDatabase on its own
\* A VectorDatabase object as its constructor leaves it, and a Qdrant
\* server without the collection.
InitVdb ==
    /\ projects = <<>>
    /\ documents = <<>>
    /\ chunks = {}
    /\ index = {}
    /\ last = NoCall
    /\ nextProject = 1
    /\ nextDoc = 1
    /\ vector_db = [client |-> FALSE, embedding_model |-> NoneVal,
                    embedding_dimension |-> EMBEDDING_DIMENSION]
    /\ collection = NoneVal
    /\ chunker = ChunkerIdle
    /\ sessions = NoSessions
    /\ files = {}

\* The chunk id lists of a direct upsert: one or more distinct ids.
ChunkIdLists ==
    {ids \in UNION { [1..n -> 1..MaxPointId] : n \in 1..MaxPointId } :
        \A i, j \in 1..Len(ids) : i # j => ids[i] # ids[j]}

\* The direct upserts that differ in effect: every passage of a call has
\* the same text, and one collaborator at most raises.
UpsertInputs ==
    [document_id : 1..MaxDocs, chunk_ids : ChunkIdLists, text : Texts,
     collab : Collaborators]

NextVdb ==
    \/ \E d \in ModelDimensions, o \in Outcomes : Connect(d, o)
    \/ \E r \in BOOLEAN, o \in Outcomes : CreateCollection(r, o)
    \/ \E u \in UpsertInputs :
          UpsertChunks(1, u.document_id, u.chunk_ids,
                       [i \in 1..Len(u.chunk_ids) |-> u.text],
                       u.collab[1], u.collab[2])
    \/ \E d \in 1..MaxDocs, ok \in BOOLEAN : DeleteByDocument(d, ok)

SpecVdb == InitVdb /\ [][NextVdb]_vars

\* ------------------------------------------------ the chunker on its own
\* The call of hierarchical_chunking on the arguments held in chunker.
HierarchicalChunking ==
    /\ chunker.state = "called"
    /\ LET out == hierarchical_chunking(chunker.document_text,
                                        chunker.chunk_size,
                                        chunker.chunk_overlap)
       IN chunker' = [chunker EXCEPT !.state = "returned",
                                     !.raised = out.raised,
                                     !.chunks = out.chunks]
    /\ UNCHANGED <<projects, documents, chunks, index, last,
                   nextProject, nextDoc, vector_db, collection,
                   sessions, files>>

\* The loop of upload_document that adds a Chunk row for every chunk
\* record returned.
StoreChunks ==
    /\ chunker.state = "returned"
    /\ ~chunker.raised
    /\ chunks' = chunks \cup Range(ChunkRows(nextDoc, chunker.chunks))
    /\ chunker' = [chunker EXCEPT !.state = "stored"]
    /\ UNCHANGED <<projects, documents, index, last,
                   nextProject, nextDoc, vector_db, collection,
                   sessions, files>>

\* The short document texts: every str of at most MaxLen characters.
ShortTexts == UNION { [1..n -> Chars] : n \in 0..MaxLen }

\* The longer document texts: up to MaxParas paragraphs of up to MaxWord
\* letters each, separated by blank lines.
RECURSIVE JoinWords(_)
JoinWords(ws) ==
    IF Len(ws) = 1 THEN [i \in 1..ws[1] |-> "a"]
    ELSE [i \in 1..ws[1] |-> "a"] \o SEP \o JoinWords(Tail(ws))

LongTexts ==
    {JoinWords(ws) : ws \in UNION { [1..n -> 1..MaxWord] : n \in 1..MaxParas }}

DocumentTexts == ShortTexts \cup LongTexts

\* The text of three paragraphs "Para A.", "Para B.", "Para C." chunked
\* with chunk_size 15 and chunk_overlap 5.
ThreeParagraphs ==
    [state |-> "called",
     document_text |->
        <<"P", "a", "r", "a", " ", "A", ".", "\n", "\n",
          "P", "a", "r", "a", " ", "B", ".", "\n", "\n",
          "P", "a", "r", "a", " ", "C", ".">>,
     chunk_size |-> 15, chunk_overlap |-> 5,
     raised |-> FALSE, chunks |-> <<>>]

\* The calls: every text with every chunk_size from 0 and every
\* chunk_overlap from -1, and the text of three paragraphs.
ChunkerCalls ==
    {[state |-> "called", document_text |-> t, chunk_size |-> n,
      chunk_overlap |-> o, raised |-> FALSE, chunks |-> <<>>] :
        t \in DocumentTexts, n \in 0..MaxSize, o \in (0 - 1)..MaxOverlap}
    \cup {ThreeParagraphs}

InitChunk ==
    /\ projects = <<>>
    /\ documents = <<>>
    /\ chunks = {}
    /\ index = {}
    /\ last = NoCall
    /\ nextProject = 1
    /\ nextDoc = 1
    /\ vector_db = [client |-> TRUE, embedding_model |-> EMBEDDING_DIMENSION,
                    embedding_dimension |-> EMBEDDING_DIMENSION]
    /\ collection = EMBEDDING_DIMENSION
    /\ chunker \in ChunkerCalls
    /\ sessions = NoSessions
    /\ files = {}

NextChunk ==
    \/ HierarchicalChunking
    \/ StoreChunks

SpecChunk == InitChunk /\ [][NextChunk]_vars

\* ------------------------------------------- requests served side by side
\* Several server processes (or threads) serve requests against the same
\* PostgreSQL database, upload directory and Qdrant collection, each request
\* in a database session of its own.  A handler is a sequence of steps; what
\* a step writes to the database becomes visible to the other sessions at
\* its commit, and between two steps of one handler the steps of other
\* handlers may run.  A row the session has loaded keeps the values it was
\* loaded with.  commitOk = FALSE stands for a commit that raises because
\* the database cannot be reached.

\* upload_document up to the size check: the project row is loaded, the
\* file id drawn and the file saved; nothing is written to the database.
BeginUpload(s, project_id, typeOk, sizeOk) ==
    /\ sessions[s].pc = "idle"
    /\ IF project_id \notin DOMAIN projects
       THEN /\ last' = [NoCall EXCEPT !.op = "upload_document", !.http = 404,
                                      !.project_id = project_id]
            /\ UNCHANGED <<sessions, files, nextDoc>>
       ELSE IF ~typeOk \/ ~sizeOk
       THEN /\ last' = [NoCall EXCEPT !.op = "upload_document", !.http = 400,
                                      !.project_id = project_id]
            /\ UNCHANGED <<sessions, files, nextDoc>>
       ELSE /\ nextDoc <= MaxDocs
            /\ sessions' = [sessions EXCEPT ![s] =
                              [SessionIdle EXCEPT
                                 !.pc = "loaded",
                                 !.project_id = project_id,
                                 !.document_id = nextDoc,
                                 !.document_count =
                                     projects[project_id].document_count]]
            /\ files' = files \cup {nextDoc}
            /\ nextDoc' = nextDoc + 1
            /\ UNCHANGED last
    /\ UNCHANGED <<projects, documents, chunks, index,
                   nextProject, vector_db, collection, chunker>>

\* upload_document, the Document row: the row is added with status
\* UPLOADING, the counter of the loaded project row is incremented, and both
\* are committed; the UPDATE writes the value computed from the loaded
\* one.  A commit that raises ends the call in the outer except clause,
\* which rolls back and answers 500.
CreateRow(s, commitOk) ==
    LET sn == sessions[s]
    IN
    /\ sn.pc = "loaded"
    /\ IF commitOk /\ sn.project_id \in DOMAIN projects
       THEN /\ documents' =
                 [d \in DOMAIN documents \cup {sn.document_id} |->
                     IF d = sn.document_id
                     THEN [project_id |-> sn.project_id, status |-> UPLOADING,
                           chunk_count |-> 0, processed_at |-> FALSE,
                           processing_error |-> NoneVal]
                     ELSE documents[d]]
            /\ projects' = [projects EXCEPT ![sn.project_id].document_count =
                                               sn.document_count + 1]
            /\ sessions' = [sessions EXCEPT ![s].pc = "created"]
            /\ UNCHANGED last
       ELSE /\ last' = [NoCall EXCEPT !.op = "upload_document", !.http = 500,
                                      !.project_id = sn.project_id,
                                      !.document_id = sn.document_id]
            /\ sessions' = [sessions EXCEPT ![s] = SessionIdle]
            /\ UNCHANGED <<documents, projects>>
    /\ UNCHANGED <<chunks, index, nextProject, nextDoc,
                   vector_db, collection, chunker, files>>

\* upload_document, the first statements of the processing block: status
\* PROCESSING is assigned and committed.  The UPDATE of a row that another
\* session has deleted raises (no row matched), as does a commit that
\* cannot reach the database; the except clause of the block then assigns
\* FAILED and commits again, and when that commit raises too the outer
\* except clause rolls back and answers 500.
MarkProcessing(s, commitOk, exceptCommitOk) ==
    LET sn == sessions[s]
        present == sn.document_id \in DOMAIN documents
    IN
    /\ sn.pc = "created"
    /\ IF present /\ commitOk
       THEN /\ documents' = [documents EXCEPT
                               ![sn.document_id].status = PROCESSING]
            /\ sessions' = [sessions EXCEPT ![s].pc = "processing"]
            /\ UNCHANGED last
       ELSE IF present /\ exceptCommitOk
       THEN /\ documents' = [documents EXCEPT
                               ![sn.document_id].status = FAILED]
            /\ sessions' = [sessions EXCEPT ![s] = SessionIdle]
            /\ last' = [NoCall EXCEPT !.op = "upload_document", !.http = 201,
                                      !.project_id = sn.project_id,
                                      !.document_id = sn.document_id,
                                      !.status = FAILED,
                                      !.ingest_failed = TRUE]
       ELSE /\ last' = [NoCall EXCEPT !.op = "upload_document", !.http = 500,
                                      !.project_id = sn.project_id,
                                      !.document_id = sn.document_id,
                                      !.row_gone = ~present]
            /\ sessions' = [sessions EXCEPT ![s] = SessionIdle]
            /\ UNCHANGED documents
    /\ UNCHANGED <<projects, chunks, index, nextProject, nextDoc,
                   vector_db, collection, chunker, files>>

\* upload_document, process_document and the loop over its records: the
\* file is read and chunked and a Chunk row for every record is added to
\* the session; nothing is written to the database yet.  The extraction
\* raises when it fails on the content (extractOk = FALSE) or when the file
\* is no longer on disk.
ProcessFile(s, extractOk, chunks_data) ==
    LET sn == sessions[s]
        extracted == extractOk /\ sn.document_id \in files
    IN
    /\ sn.pc = "processing"
    /\ sessions' = [sessions EXCEPT
                       ![s].pc = "extracted",
                       ![s].extracted = extracted,
                       ![s].chunks_data = IF extracted THEN chunks_data
                                          ELSE <<>>]
    /\ UNCHANGED <<projects, documents, chunks, index, last, nextProject,
                   nextDoc, vector_db, collection, chunker, files>>

\* upload_document, the rest of the processing block: the upsert of the
\* chunks into the collection, the assignments to the row, and the commit
\* that ends the call, of the try block or of its except clause, which
\* writes the row and the pending Chunk rows.  The UPDATE of a row that
\* another session has deleted raises, as does a commit that cannot reach
\* the database: the outer except clause rolls back, so that neither the
\* row nor a Chunk row is written, and answers 500.  What upsert_chunks
\* wrote to the collection stays.
FinishUpload(s, embedOk, clientOk, commitOk) ==
    LET sn == sessions[s]
        file_id == sn.document_id
        rows == ChunkRows(file_id, sn.chunks_data)
        chunk_ids == [i \in 1..Len(rows) |-> rows[i].id]
        chunk_texts == [i \in 1..Len(rows) |-> rows[i].content]
        chunk_metadatas ==
            [i \in 1..Len(rows) |->
                [document_id |-> file_id, project_id |-> sn.project_id,
                 chunk_index |-> rows[i].chunk_index]]
        row == ProcessedRow(sn.project_id, sn.extracted, sn.chunks_data)
        present == file_id \in DOMAIN documents
    IN
    /\ sn.pc = "extracted"
    /\ index' = IF sn.extracted /\ chunk_ids # <<>>
                THEN upsert_chunks(index, chunk_ids, chunk_texts,
                                   chunk_metadatas, embedOk, clientOk)
                ELSE index
    /\ IF present /\ commitOk
       THEN /\ documents' = [documents EXCEPT ![file_id] = row]
            /\ chunks' = chunks \cup Range(rows)
            /\ last' = [NoCall EXCEPT !.op = "upload_document", !.http = 201,
                                      !.project_id = sn.project_id,
                                      !.document_id = file_id,
                                      !.status = row.status,
                                      !.ingest_failed =
                                          \/ ~sn.extracted
                                          \/ /\ chunk_ids # <<>>
                                             /\ ~(embedOk /\ clientOk)]
       ELSE /\ last' = [NoCall EXCEPT !.op = "upload_document", !.http = 500,
                                      !.project_id = sn.project_id,
                                      !.document_id = file_id,
                                      !.row_gone = ~present]
            /\ UNCHANGED <<documents, chunks>>
    /\ sessions' = [sessions EXCEPT ![s] = SessionIdle]
    /\ UNCHANGED <<projects, nextProject, nextDoc,
                   vector_db, collection, chunker, files>>

\* delete_document up to db.delete: the document row is looked up (404
\* when there is none in the project), the file is removed from disk and
\* the project row is loaded.
BeginDelete(s, project_id, document_id) ==
    /\ sessions[s].pc = "idle"
    /\ IF ~(document_id \in DOMAIN documents
            /\ documents[document_id].project_id = project_id)
       THEN /\ last' = [NoCall EXCEPT !.op = "delete_document", !.http = 404,
                                      !.project_id = project_id,
                                      !.document_id = document_id]
            /\ UNCHANGED <<sessions, files>>
       ELSE /\ sessions' = [sessions EXCEPT ![s] =
                              [SessionIdle EXCEPT
                                 !.pc = "deleting",
                                 !.project_id = project_id,
                                 !.document_id = document_id,
                                 !.document_count =
                                     IF project_id \in DOMAIN projects
                                     THEN projects[project_id].document_count
                                     ELSE 0]]
            /\ files' = files \ {document_id}
            /\ UNCHANGED last
    /\ UNCHANGED <<projects, documents, chunks, index, nextProject, nextDoc,
                   vector_db, collection, chunker>>

\* delete_document, the commit: the counter of the loaded project row,
\* decremented (not below 0), is written, and the document row is deleted
\* with its Chunk rows; a DELETE that matches no row, the row having been
\* deleted by another session, is only warned about.  The collection is
\* not touched.  A commit that raises is rolled back and answered 500.
CommitDelete(s, commitOk) ==
    LET sn == sessions[s]
    IN
    /\ sn.pc = "deleting"
    /\ IF commitOk
       THEN /\ projects' =
                 IF sn.project_id \in DOMAIN projects
                 THEN [projects EXCEPT ![sn.project_id].document_count =
                                          Max(0, sn.document_count - 1)]
                 ELSE projects
            /\ documents' = [d \in DOMAIN documents \ {sn.document_id} |->
                               documents[d]]
            /\ chunks' = {c \in chunks : c.document_id # sn.document_id}
            /\ last' = [NoCall EXCEPT !.op = "delete_document", !.http = 204,
                                      !.project_id = sn.project_id,
                                      !.document_id = sn.document_id]
       ELSE /\ last' = [NoCall EXCEPT !.op = "delete_document", !.http = 500,
                                      !.project_id = sn.project_id,
                                      !.document_id = sn.document_id]
            /\ UNCHANGED <<projects, documents, chunks>>
    /\ sessions' = [sessions EXCEPT ![s] = SessionIdle]
    /\ UNCHANGED <<index, nextProject, nextDoc,
                   vector_db, collection, chunker, files>>

\* The application started and one project created.
InitSessions ==
    /\ projects = [p \in {1} |-> [document_count |-> 0]]
    /\ documents = <<>>
    /\ chunks = {}
    /\ index = {}
    /\ last = [NoCall EXCEPT !.op = "create_project", !.http = 201,
                             !.project_id = 1]
    /\ nextProject = 2
    /\ nextDoc = 1
    /\ vector_db = [client |-> TRUE, embedding_model |-> EMBEDDING_DIMENSION,
                    embedding_dimension |-> EMBEDDING_DIMENSION]
    /\ collection = EMBEDDING_DIMENSION
    /\ chunker = ChunkerIdle
    /\ sessions = NoSessions
    /\ files = {}

\* The processings that differ in effect: a failed extraction, no chunk,
\* one chunk.
ProcessInputs ==
    {u \in [extractOk : BOOLEAN, chunks_data : ChunksData] :
        /\ ~u.extractOk => u.chunks_data = <<>>
        /\ \A i \in 1..Len(u.chunks_data) : u.chunks_data[i].content = 1}

NextSessions ==
    \/ \E s \in Sessions, p \in ProjectIds, typeOk, sizeOk \in BOOLEAN :
          BeginUpload(s, p, typeOk, sizeOk)
    \/ \E s \in Sessions, commitOk \in BOOLEAN : CreateRow(s, commitOk)
    \/ \E s \in Sessions, commitOk, exceptCommitOk \in BOOLEAN :
          MarkProcessing(s, commitOk, exceptCommitOk)
    \/ \E s \in Sessions, u \in ProcessInputs :
          ProcessFile(s, u.extractOk, u.chunks_data)
    \/ \E s \in Sessions, c \in Collaborators, commitOk \in BOOLEAN :
          FinishUpload(s, c[1], c[2], commitOk)
    \/ \E s \in Sessions, p \in ProjectIds, d \in 1..MaxDocs :
          BeginDelete(s, p, d)
    \/ \E s \in Sessions, commitOk \in BOOLEAN : CommitDelete(s, commitOk)

SpecSessions == InitSessions /\ [][NextSessions]_vars

\* ================================================================ claims
\* Every handler overwrites `last`, and submit_query and search change
\* nothing else: in a state whose `last` is the response of a query, the
\* rows and the collection are those the query ran against.

\* The points of the collection that carry document d in their payload.
PointIdsOf(d) == {p.id : p \in {x \in index : x.payload.document_id = d}}

\* The ids of the chunk rows of document d.
ChunkIdsOf(d) == {c.id : c \in {x \in chunks : x.document_id = d}}

\* Whether the handler finds the Chunk row and the Document row of a hit.
HitResolved(h) ==
    /\ \E c \in chunks : c.id = h.chunk_id
    /\ h.document_id \in DOMAIN documents

\* The citations of the hits that resolve, in the order of the hits.
CitationsOf(results) ==
    LET kept == SelectSeq(results, HitResolved)
    IN [j \in 1..Len(kept) |->
           [chunk_id |-> kept[j].chunk_id,
            document_id |-> kept[j].document_id,
            similarity_score |-> kept[j].score]]

\* The response of a submit_query call that found its project.
QueryAnswered == last.op = "submit_query" /\ last.http # 404

\* C1: once upload_document has returned for a document, the ids of the
\* index points that carry the document's id are exactly the ids of the
\* chunk rows stored for it, whether or not the upsert succeeded.
C1_IndexEqualsChunks ==
    \A d \in DOMAIN documents : PointIdsOf(d) = ChunkIdsOf(d)

\* C2: every point of the index carries the id of a document that still
\* exists, after any uploads and deletions of documents and projects.
C2_NoOrphanVectors ==
    \A p \in index : p.payload.document_id \in DOMAIN documents

Searched == last.op = "search" \/ QueryAnswered

\* The points of the collection that match the scopes of the search and
\* score at least its threshold against its query.
MatchingPoints ==
    {p \in index :
        /\ last.project_id # NoneVal => p.payload.project_id = last.project_id
        /\ last.document_id # NoneVal => p.payload.document_id = last.document_id
        /\ Scores[generate_embedding(last.query_text), p.vector]
              >= last.score_threshold}

\* C8: a search returns exactly min(top_k, m) hits, m being the number of
\* points that match its filter and reach its threshold, and none of the
\* hits is below the threshold.
C8_ExactHitCount ==
    Searched
        => /\ Len(last.results) = Min(last.top_k, Cardinality(MatchingPoints))
           /\ \A h \in Range(last.results) : h.score >= last.score_threshold

\* C9: the hits of a search are in descending order of score, and hits of
\* equal score are in ascending order of id.
C9_SortedWithTieBreak ==
    Searched
        => \A i, j \in 1..Len(last.results) :
              i < j => \/ last.results[i].score > last.results[j].score
                       \/ /\ last.results[i].score = last.results[j].score
                          /\ last.results[i].chunk_id < last.results[j].chunk_id

ResolvedPositions(results) ==
    SelectSeq([i \in 1..Len(results) |-> i],
              LAMBDA i : HitResolved(results[i]))

C12_ReindexReplaces ==
    (last.op = "upsert_chunks" /\ last.returned)
        => PointIdsOf(last.document_id) = Range(last.chunk_ids)

\* C13: when process_document, the embedder or the upsert fails during an
\* upload, the document returned is FAILED, not COMPLETED, and carries a
\* processing error.
C13_FailedIngestionIsFailed ==
    (last.op = "upload_document" /\ last.http = 201 /\ last.ingest_failed)
        => /\ last.status = FAILED
           /\ documents[last.document_id].status = FAILED
           /\ documents[last.document_id].processing_error # NoneVal

\* The chunker has returned.
ChunkerReturned == chunker.state \in {"returned", "stored"}

\* The paragraphs ps joined by the separator.
RECURSIVE Join(_)
Join(ps) ==
    IF ps = <<>> THEN <<>>
    ELSE IF Len(ps) = 1 THEN ps[1]
    ELSE ps[1] \o SEP \o Join(Tail(ps))

\* x is a suffix of s.
IsSuffix(x, s) ==
    /\ Len(x) <= Len(s)
    /\ SubSeq(s, Len(s) - Len(x) + 1, Len(s)) = x

\* The content of the i-th chunk of cs is the paragraphs ps joined,
\* preceded, in a chunk after the first, by a suffix of the content of
\* the chunk before and the separator.
HoldsParagraphs(cs, i, ps) ==
    LET body == Join(ps)
        c == cs[i].content
    IN IF i = 1 THEN c = body
       ELSE /\ IsSuffix(SEP \o body, c)
            /\ IsSuffix(SubSeq(c, 1, Len(c) - Len(body) - Len(SEP)),
                        cs[i - 1].content)

RECURSIVE Reconstructs(_, _, _)
Reconstructs(cs, i, ps) ==
    IF i > Len(cs) THEN ps = <<>>
    ELSE \E m \in 1..Len(ps) :
            /\ HoldsParagraphs(cs, i, SubSeq(ps, 1, m))
            /\ Reconstructs(cs, i + 1, SubSeq(ps, m + 1, Len(ps)))

\* C15: for a non-empty text (and an overlap that is not negative), the
\* contents of the chunks, each after the first without the overlap prefix
\* taken from its predecessor, are in order exactly the trimmed non-empty
\* paragraphs of the text: every paragraph whole, once, none missing.
C15_ChunksReconstructParagraphs ==
    (/\ ChunkerReturned
     /\ chunker.document_text # <<>>
     /\ chunker.chunk_overlap >= 0)
        => Reconstructs(chunker.chunks, 1,
                        Paragraphs(chunker.document_text))

\* C15 witness: three paragraphs returned in three chunks, the later ones
\* with an overlap prefix.
C15_Witness ==
    /\ ChunkerReturned
    /\ Len(Paragraphs(chunker.document_text)) = 3
    /\ Len(chunker.chunks) = 3
    /\ chunker.chunk_overlap > 0
    /\ chunker.chunk_overlap < chunker.chunk_size

\* C16: the i-th chunk record returned has chunk_index i, counted from 0,
\* and the Chunk rows stored for the records carry the same indices, one
\* row for each record.
C16_ContiguousChunkIndex ==
    /\ ChunkerReturned
          => \A i \in 1..Len(chunker.chunks) :
                chunker.chunks[i].chunk_index = i - 1
    /\ chunker.state = "stored"
          => /\ Cardinality(chunks) = Len(chunker.chunks)
             /\ \A i \in 1..Len(chunker.chunks) :
                   \E r \in chunks :
                      /\ r.chunk_index = i - 1
                      /\ r.content = chunker.chunks[i].content

\* C16 witness: the rows of three chunks are stored.
C16_Witness ==
    /\ chunker.state = "stored"
    /\ chunker.chunk_size > 0
    /\ chunker.chunk_overlap >= 0
    /\ Cardinality(chunks) = 3

\* C17: the text of the paragraphs "Para A.", "Para B.", "Para C."
\* chunked with chunk_size 15 and chunk_overlap 5 gives two chunks: the
\* first two paragraphs joined (16 characters), and the last 5 characters
\* of that chunk, the separator and "Para C.".
C17_ThreeParagraphScenario ==
    (/\ ChunkerReturned
     /\ chunker.document_text = ThreeParagraphs.document_text
     /\ chunker.chunk_size = 15
     /\ chunker.chunk_overlap = 5)
        => /\ Len(chunker.chunks) = 2
           /\ chunker.chunks[1].content =
                 <<"P", "a", "r", "a", " ", "A", ".", "\n", "\n",
                   "P", "a", "r", "a", " ", "B", ".">>
           /\ Len(chunker.chunks[1].content) = 16
           /\ chunker.chunks[2].content =
                 SubSeq(chunker.chunks[1].content, 12, 16)
                 \o SEP \o <<"P", "a", "r", "a", " ", "C", ".">>

\* C17 witness: the chunker has returned for that text.
C17_Witness ==
    /\ ChunkerReturned
    /\ chunker.document_text = ThreeParagraphs.document_text
    /\ chunker.chunk_size = 15
    /\ chunker.chunk_overlap = 5

\* C18: a text of no characters or of whitespace only gives no chunk, and
\* no chunk returned has an empty content.
C18_NoEmptyChunks ==
    ChunkerReturned
        => /\ (\A i \in 1..Len(chunker.document_text) :
                  chunker.document_text[i] \in Whitespace)
                => chunker.chunks = <<>>
           /\ \A i \in 1..Len(chunker.chunks) :
                 chunker.chunks[i].content # <<>>

\* C18 witness: the chunker has returned for a text of spaces and blank
\* lines.
C18_Witness ==
    /\ ChunkerReturned
    /\ chunker.chunk_size > 0
    /\ chunker.chunk_overlap >= 0
    /\ Len(split(chunker.document_text)) >= 2
    /\ \E i \in 1..Len(chunker.document_text) :
          chunker.document_text[i] = " "
    /\ \A i \in 1..Len(chunker.document_text) :
          chunker.document_text[i] \in Whitespace

\* C19: the chunker fails, returning no chunk, when chunk_size <= 0, and
\* does not fail for a text with chunk_size > 0, whatever chunk_overlap.
C19_InvalidSizeRejected ==
    ChunkerReturned
        => /\ chunker.chunk_size <= 0
                => chunker.raised /\ chunker.chunks = <<>>
           /\ chunker.chunk_size > 0 => ~chunker.raised

\* C20: create_collection fails when the existing collection has another
\* vector size than the one asked for, and connect fails, adopting
\* nothing, when the model's dimension is not the configured one.
C20_DimensionMismatchFatal ==
    /\ (/\ last.op = "create_collection"
        /\ ~last.recreate
        /\ collection # NoneVal
        /\ collection # vector_db.embedding_dimension)
          => ~last.returned
    /\ (/\ last.op = "connect"
        /\ last.actual_dimension # EMBEDDING_DIMENSION)
          => /\ ~last.returned
             /\ vector_db.embedding_dimension # last.actual_dimension

\* The loaded model embeds into vectors of another length than the vector
\* size of the existing collection.
DimensionMismatch ==
    /\ vector_db.client
    /\ vector_db.embedding_model # NoneVal
    /\ collection # NoneVal
    /\ collection # vector_db.embedding_model

\* C21: an upsert of vectors whose length is not the dimension of the
\* index fails with an error that reaches the caller, instead of returning
\* a value the caller may ignore.
C21_MismatchedUpsertRaises ==
    (last.op = "upsert_chunks" /\ DimensionMismatch) => last.raised

\* The metadatas of the most recent direct upsert.
LastMetadatas ==
    [i \in 1..Len(last.chunk_ids) |->
        [document_id |-> last.document_id, project_id |-> last.project_id,
         chunk_index |-> i - 1]]

\* C22: after an upsert every id of the call has exactly one entry in the
\* index, carrying the vector and the payload of this call whatever was
\* stored under the id before, and doing the same upsert once more leaves
\* the index as it is.
C22_UpsertIdempotent ==
    (last.op = "upsert_chunks" /\ last.returned)
        => /\ \A i \in 1..Len(last.chunk_ids) :
                {p \in index : p.id = last.chunk_ids[i]}
                  = {[id |-> last.chunk_ids[i],
                      vector |-> generate_embedding(last.texts[i]),
                      payload |-> [text |-> last.texts[i],
                                   document_id |-> last.document_id,
                                   project_id |-> last.project_id,
                                   chunk_index |-> i - 1]]}
           /\ upsert_chunks(index, last.chunk_ids, last.texts, LastMetadatas,
                            TRUE, TRUE) = index

\* An upsert has replaced the point stored under one of its ids by a point
\* of another text or document.
C22_Witness ==
    /\ last.op = "upsert_chunks"
    /\ last.returned
    /\ last.replaced # {}

LastChars(s, k) ==
    IF Len(s) > k THEN SubSeq(s, Len(s) - k + 1, Len(s)) ELSE s

\* The chunks of cs from the i-th on hold the paragraphs ps, and the
\* content of each chunk after the first is the trimmed buffer that began
\* as the last k characters of the content of the chunk before, the
\* separator and the first paragraph of the chunk.
RECURSIVE SeededBy(_, _, _, _)
SeededBy(cs, i, ps, k) ==
    IF i > Len(cs) THEN ps = <<>>
    ELSE \E m \in 1..Len(ps) :
            /\ cs[i].content =
                  IF i = 1 THEN Join(SubSeq(ps, 1, m))
                  ELSE strip(LastChars(cs[i - 1].content, k) \o SEP
                             \o Join(SubSeq(ps, 1, m)))
            /\ SeededBy(cs, i + 1, SubSeq(ps, m + 1, Len(ps)), k)

\* C24: for every chunk_overlap >= 0 the buffer after a close is the last
\* chunk_overlap characters of the closed content, the separator and the
\* paragraph that did not fit, so that a chunk after the first begins with
\* exactly that many characters of its predecessor: none when
\* chunk_overlap is 0.
C24_OverlapSeed ==
    (/\ ChunkerReturned
     /\ chunker.document_text # <<>>
     /\ chunker.chunk_size > 0
     /\ chunker.chunk_overlap >= 0)
        => SeededBy(chunker.chunks, 1, Paragraphs(chunker.document_text),
                    chunker.chunk_overlap)

\* C25: every record returned has char_count equal to the number of
\* characters of its content, the trimmed buffer, also when the buffer
\* began with an overlap tail that begins with whitespace.
C25_CharCountIsContentLength ==
    (/\ ChunkerReturned
     /\ chunker.chunk_size > 0
     /\ chunker.chunk_overlap >= 0
     /\ chunker.chunk_overlap < chunker.chunk_size)
        => \A i \in 1..Len(chunker.chunks) :
              chunker.chunks[i].char_count = Len(chunker.chunks[i].content)

\* C26: an upload whose extraction, chunking, embedding and upsert all
\* succeeded returns the document COMPLETED, with chunk_count the number of
\* its chunk rows and processed_at set.
C26_SuccessIsCompleted ==
    (last.op = "upload_document" /\ last.http = 201 /\ ~last.ingest_failed)
        => /\ last.status = COMPLETED
           /\ documents[last.document_id].status = COMPLETED
           /\ documents[last.document_id].chunk_count
                 = Cardinality(ChunkIdsOf(last.document_id))
           /\ documents[last.document_id].processed_at

\* The sessions in which an upload of document d is under way, its row
\* created and its last commit not yet reached.
UploadsInFlight(d) ==
    {s \in Sessions : /\ sessions[s].pc \in {"created", "processing",
                                              "extracted"}
                      /\ sessions[s].document_id = d}

\* C27: a document is UPLOADING or PROCESSING only while the upload call
\* that created it is under way: once the call has returned, with the
\* document or with an error response, the document is COMPLETED or FAILED.
C27_NoDocumentLeftInFlight ==
    \A d \in DOMAIN documents :
        documents[d].status \in {UPLOADING, PROCESSING}
            => UploadsInFlight(d) # {}

\* C29: when an upload has found, at a commit after the one that created
\* its document, that the document was deleted meanwhile, then after the
\* upload has returned there is no chunk row and no point of the
\* collection for the document.
C29_DeletedDuringUploadLeavesNothing ==
    (last.op = "upload_document" /\ last.row_gone)
        => /\ ChunkIdsOf(last.document_id) = {}
           /\ PointIdsOf(last.document_id) = {}

\* C30: while no call is under way, the document_count of every project is
\* the number of its document rows, and it is never negative.
C30_DocumentCountIsRowCount ==
    \A p \in DOMAIN projects :
        /\ projects[p].document_count >= 0
        /\ (\A s \in Sessions : sessions[s].pc = "idle")
              => projects[p].document_count
                   = Cardinality({d \in DOMAIN documents :
                                     documents[d].project_id = p})

====
